---- MODULE Spec2Model ----
(***************************************************************************)
(* Ingestion, index building and retrieval of the PDF question-answering   *)
(* pipeline: generate_embeddings.py (embedding loop, pairing, cache save), *)
(* vector_store.py (cache load, collection provisioning, batched upsert)   *)
(* and retrieval.py / rag_tool.py (query embedding, index query, answer).  *)
(*                                                                         *)
(* The embedding service, the vector index and the file system are         *)
(* external: each call to them either succeeds or raises, chosen           *)
(* nondeterministically.                                                   *)
(***************************************************************************)
EXTENDS Integers, Sequences, FiniteSets, TLC

\* ---------------------------------------------------------------- bounds
MaxChunks == 3        \* longest chunk list of an ingestion run
MaxRuns == 2          \* ingestion runs in a row
EmbedDim == 2         \* length of the vectors the embedding service returns
Texts == {"a", "b"}   \* chunk texts
MaxRecords == 3       \* longest record list in a cache file handed to the index builder
MaxDim == 2           \* largest vector length in such a cache file
MaxBuilds == 2        \* index-builder runs in a row
MaxHits == 3          \* most points the index holds at query time
MaxTopK == 4          \* largest top_k of a query
MaxCalls == 2         \* queries answered in a row

\* ------------------------------------------------------- Python values
\* An embedding slot holds None or a list of numbers.
None == [isNone |-> TRUE, vec |-> <<>>]
Vector(v) == [isNone |-> FALSE, vec |-> v]
\* Python truthiness of an embedding slot: None and [] are falsy.
Truthy(e) == ~e.isNone /\ Len(e.vec) > 0
\* The vector the service computes for its n-th request: distinct requests
\* get distinct vectors, all of the model's dimension.
VecOf(d, n) == [k \in 1..d |-> n]

\* ------------------------------------------------- the cache file on disk
MissingFile == [kind |-> "missing"]
CorruptFile == [kind |-> "corrupt"]     \* bytes that do not unpickle
ObjectFile == [kind |-> "object"]       \* unpickles to something that is not a list
ListFile(items) == [kind |-> "list", items |-> items]

VARIABLES
  cacheFile,          \* content of pdf_embeddings_cache.pkl
  \* --- generate_embeddings.py
  ipc,                \* position of the ingestion script
  run,                \* number of ingestion runs started
  text_chunks,        \* chunks of the current run
  chunk_embeddings,   \* list built by generate_embeddings
  emb_i,              \* loop index of generate_embeddings (chunks consumed)
  processed_data,     \* list of {"text","embedding"} records
  save_successful,    \* result of save_data_to_pickle in this run
  embed_requests,     \* embedding requests issued so far (all runs)
  responses,          \* history: the service's answer to each request of this run
  cache_before,       \* history: the cache file when the current run began
  \* --- vector_store.py
  bpc,                \* position of the index-builder script
  builds,             \* number of index-builder runs started
  loaded_data,        \* processed_data of vector_store.py (None is <<>> with load_ok false)
  load_ok,            \* load_data_from_pickle returned data (not None)
  vector_dim,         \* dimension returned by load_data_from_pickle
  collection,         \* the named collection in the vector index
  points_to_upsert,   \* list of PointStruct
  up_i,               \* loop variable i of the upsert loop
  next_uuid,          \* source of fresh point identifiers (uuid4)
  reported_attempted, \* "Preparing to upsert N points"; NotReported before
  reported_count,     \* "now contains N points"; NotReported when not printed
  upsert_log,         \* history: the upsert calls of this run and their outcome
  index_writes,       \* history: recreate and upsert requests issued in this run
  collection_before,  \* history: the collection when this run began
  started_empty,      \* history: the collection held no point before the first run
  all_acked,          \* history: no upsert batch was rejected in any run
  completed,          \* history: runs that reached the end of the script
  \* --- retrieval.py, rag_tool.py
  rpc,                \* position inside generate_answer / retrieve_relevant_chunks
  calls,              \* number of queries started
  query_text,         \* argument of retrieve_relevant_chunks
  top_k,              \* argument of retrieve_relevant_chunks
  ranked,             \* the index's points as it ranks them for the query, best first
  search_points,      \* query_response.points
  result,             \* outcome of retrieve_relevant_chunks: returned list, or raised
  embed_calls,        \* history: embedding requests issued by this call
  query_calls,        \* history: index queries issued by this call
  failed,             \* history: the embedding call or the index query raised
  answer              \* what generate_answer returns

ingestVars == <<ipc, run, text_chunks, chunk_embeddings, emb_i, processed_data,
                save_successful, embed_requests, responses, cache_before>>

buildVars == <<bpc, builds, loaded_data, load_ok, vector_dim, collection,
               points_to_upsert, up_i, next_uuid, reported_attempted,
               reported_count, upsert_log, index_writes, collection_before,
               started_empty, all_acked, completed>>

retrVars == <<rpc, calls, query_text, top_k, ranked, search_points, result,
              embed_calls, query_calls, failed, answer>>

vars == <<cacheFile, ingestVars, buildVars, retrVars>>

\* ======================================================================
\* generate_embeddings.py
\* ======================================================================

ChunkLists == UNION {[1..n -> Texts] : n \in 0..MaxChunks}

ServiceOk(v) == [ok |-> TRUE, embedding |-> v]
ServiceError == [ok |-> FALSE]

\* generate_embeddings, the except branch: what the list becomes when the
\* request for a chunk raises.
OnEmbedErrorSkip(embeddings) == embeddings
OnEmbedError(embeddings) == Append(embeddings, None)

\* generate_embeddings, the try branch.
OnEmbedSuccess(embeddings, v) == Append(embeddings, v)

\* The zip loop of the module level: pairs chunk i with embedding i and keeps
\* the pair when the embedding is truthy.
RECURSIVE PairValidUnfiltered(_, _)
PairValidUnfiltered(ts, es) ==
  IF ts = <<>> \/ es = <<>> THEN <<>>
  ELSE <<[text |-> Head(ts), embedding |-> Head(es)]>>
         \o PairValidUnfiltered(Tail(ts), Tail(es))

RECURSIVE PairValid(_, _)
PairValid(ts, es) ==
  IF ts = <<>> \/ es = <<>> THEN <<>>
  ELSE (IF Truthy(Head(es))
          THEN <<[text |-> Head(ts), embedding |-> Head(es)]>>
          ELSE <<>>)
         \o PairValid(Tail(ts), Tail(es))

\* open(file_path, 'wb') followed by pickle.dump: the file is truncated and
\* holds the dumped list only.
WriteCacheAppend(old, data) ==
  IF old.kind = "list" THEN ListFile(old.items \o data) ELSE ListFile(data)
WriteCache(old, data) == ListFile(data)

IngestInit ==
  /\ ipc = "idle"
  /\ run = 0
  /\ text_chunks = <<>>
  /\ chunk_embeddings = <<>>
  /\ emb_i = 0
  /\ processed_data = <<>>
  /\ save_successful = FALSE
  /\ embed_requests = 0
  /\ responses = <<>>
  /\ cache_before = MissingFile

\* A run of the script up to the chunk list: PDF loading and chunking are
\* external; a missing PDF, empty text or no chunks all give no chunks.
BeginRun ==
  /\ ipc \in {"idle", "done"}
  /\ run < MaxRuns
  /\ \E chunks \in ChunkLists :
       /\ text_chunks' = chunks
       /\ ipc' = "main138"
  /\ run' = run + 1
  /\ chunk_embeddings' = <<>>
  /\ emb_i' = 0
  /\ processed_data' = <<>>
  /\ save_successful' = FALSE
  /\ responses' = <<>>
  /\ cache_before' = cacheFile
  /\ UNCHANGED <<buildVars, retrVars, cacheFile, embed_requests>>

\* if text_chunks: chunk_embeddings = generate_embeddings(text_chunks, model)
CallGenerateEmbeddings ==
  /\ ipc = "main138"
  /\ ipc' = IF text_chunks = <<>> THEN "main148" ELSE "loop"
  /\ UNCHANGED <<buildVars, retrVars, cacheFile, run, text_chunks, chunk_embeddings, emb_i,
                 processed_data, save_successful, embed_requests, responses,
                 cache_before>>

\* One iteration whose request succeeds.
EmbedChunkOk ==
  /\ ipc = "loop"
  /\ emb_i < Len(text_chunks)
  /\ embed_requests' = embed_requests + 1
  /\ LET v == Vector(VecOf(EmbedDim, embed_requests'))
     IN /\ chunk_embeddings' = OnEmbedSuccess(chunk_embeddings, v)
        /\ responses' = Append(responses, ServiceOk(v))
  /\ emb_i' = emb_i + 1
  /\ UNCHANGED <<buildVars, retrVars, cacheFile, ipc, run, text_chunks, processed_data,
                 save_successful, cache_before>>

\* One iteration whose request raises.
EmbedChunkFail ==
  /\ ipc = "loop"
  /\ emb_i < Len(text_chunks)
  /\ embed_requests' = embed_requests + 1
  /\ chunk_embeddings' = OnEmbedError(chunk_embeddings)
  /\ responses' = Append(responses, ServiceError)
  /\ emb_i' = emb_i + 1
  /\ UNCHANGED <<buildVars, retrVars, cacheFile, ipc, run, text_chunks, processed_data,
                 save_successful, cache_before>>

\* The loop is over: return embeddings.
ReturnEmbeddings ==
  /\ ipc = "loop"
  /\ emb_i = Len(text_chunks)
  /\ ipc' = "main148"
  /\ UNCHANGED <<buildVars, retrVars, cacheFile, run, text_chunks, chunk_embeddings, emb_i,
                 processed_data, save_successful, embed_requests, responses,
                 cache_before>>

\* processed_data = [] and the guarded zip loop.
CombineChunks ==
  /\ ipc = "main148"
  /\ processed_data' =
       IF /\ text_chunks # <<>>
          /\ chunk_embeddings # <<>>
          /\ Len(text_chunks) = Len(chunk_embeddings)
       THEN PairValid(text_chunks, chunk_embeddings)
       ELSE <<>>
  /\ ipc' = "main157"
  /\ UNCHANGED <<buildVars, retrVars, cacheFile, run, text_chunks, chunk_embeddings, emb_i,
                 save_successful, embed_requests, responses, cache_before>>

\* if processed_data: ... is false, save_data_to_pickle is not called.
SkipSave ==
  /\ ipc = "main157"
  /\ processed_data = <<>>
  /\ ipc' = "done"
  /\ UNCHANGED <<buildVars, retrVars, cacheFile, run, text_chunks, chunk_embeddings, emb_i,
                 processed_data, save_successful, embed_requests, responses,
                 cache_before>>

\* save_data_to_pickle writes the file and returns True.
SaveOk ==
  /\ ipc = "main157"
  /\ processed_data # <<>>
  /\ cacheFile' = WriteCache(cacheFile, processed_data)
  /\ save_successful' = TRUE
  /\ ipc' = "done"
  /\ UNCHANGED <<buildVars, retrVars, run, text_chunks, chunk_embeddings, emb_i, processed_data,
                 embed_requests, responses, cache_before>>

\* open() raises: nothing is written, the function returns False.
SaveOpenFails ==
  /\ ipc = "main157"
  /\ processed_data # <<>>
  /\ save_successful' = FALSE
  /\ ipc' = "done"
  /\ UNCHANGED <<buildVars, retrVars, cacheFile, run, text_chunks, chunk_embeddings, emb_i,
                 processed_data, embed_requests, responses, cache_before>>

\* pickle.dump raises after open() truncated the file: a partial pickle is left.
SaveDumpFails ==
  /\ ipc = "main157"
  /\ processed_data # <<>>
  /\ cacheFile' = CorruptFile
  /\ save_successful' = FALSE
  /\ ipc' = "done"
  /\ UNCHANGED <<buildVars, retrVars, run, text_chunks, chunk_embeddings, emb_i, processed_data,
                 embed_requests, responses, cache_before>>

IngestNext ==
  \/ BeginRun
  \/ CallGenerateEmbeddings
  \/ EmbedChunkOk
  \/ EmbedChunkFail
  \/ ReturnEmbeddings
  \/ CombineChunks
  \/ SkipSave
  \/ SaveOk
  \/ SaveOpenFails
  \/ SaveDumpFails

\* ======================================================================
\* vector_store.py
\* ======================================================================

\* batch_size = 100 in the script; scaled to the model's record bound so that
\* one run sends several batches.
batch_size == 2

NotReported == -1

\* The cache files handed to the index builder: the file is outside the
\* script's control, so every shape is possible.
CacheEmbeddings == {None} \cup {Vector(VecOf(d, 1)) : d \in 1..MaxDim}
CacheRecords ==
  {[text |-> "a", embedding |-> e] : e \in CacheEmbeddings}
    \cup {[text |-> "a"]}
    \cup {[embedding |-> e] : e \in CacheEmbeddings}
CacheFiles ==
  {MissingFile, CorruptFile, ObjectFile}
    \cup {ListFile(items) : items \in UNION {[1..n -> CacheRecords] : n \in 0..MaxRecords}}

\* The collection: exists or not, its vector size, its points.
Absent == [exists |-> FALSE, dim |-> 0, points |-> {}]
Collection(d, ps) == [exists |-> TRUE, dim |-> d, points |-> ps]
OldPoint(d) == [id |-> 0, vector |-> VecOf(d, 0), payload |-> [text |-> "old"]]
InitialCollections ==
  {Absent} \cup {Collection(d, ps) : d \in 1..MaxDim, ps \in {{}}}
           \cup {Collection(d, {OldPoint(d)}) : d \in 1..MaxDim}

LoadFailed == [loaded |-> FALSE, data |-> <<>>, dim |-> 0]

\* load_data_from_pickle: (data, first_embedding_dim) or (None, 0).
load_data_from_pickle(file) ==
  IF file.kind # "list" THEN LoadFailed
  ELSE LET data == file.items
       IN IF Len(data) > 0 /\ "text" \in DOMAIN data[1] /\ "embedding" \in DOMAIN data[1]
          THEN IF data[1].embedding.isNone
               THEN LoadFailed     \* len(None) raises, caught by the except branch
               ELSE [loaded |-> TRUE, data |-> data, dim |-> Len(data[1].embedding.vec)]
          ELSE LoadFailed

\* The point-preparation loop: skips an item whose embedding is missing, None
\* or of another length; item['text'] raises KeyError on an item without text.
RECURSIVE PreparePoints(_, _, _)
PreparePoints(items, dim, id) ==
  IF items = <<>> THEN [crashed |-> FALSE, points |-> <<>>]
  ELSE LET item == Head(items)
       IN IF \/ "embedding" \notin DOMAIN item
             \/ item.embedding.isNone
             \/ Len(item.embedding.vec) # dim
          THEN PreparePoints(Tail(items), dim, id)
          ELSE IF "text" \notin DOMAIN item
               THEN [crashed |-> TRUE, points |-> <<>>]
               ELSE LET rest == PreparePoints(Tail(items), dim, id + 1)
                        point == [id |-> id, vector |-> item.embedding.vec,
                                  payload |-> [text |-> item.text]]
                    IN [crashed |-> rest.crashed,
                        points |-> IF rest.crashed THEN <<>> ELSE <<point>> \o rest.points]

\* points_to_upsert[i:i + batch_size]
Batch(points, i) ==
  SubSeq(points, i + 1, IF i + batch_size < Len(points) THEN i + batch_size ELSE Len(points))

Range(s) == {s[k] : k \in 1..Len(s)}

\* The index's upsert: a point replaces the stored point of the same id.
Upserted(points, batch) ==
  {p \in points : \A q \in Range(batch) : q.id # p.id} \cup Range(batch)

BuildInit ==
  /\ bpc = "idle"
  /\ builds = 0
  /\ loaded_data = <<>>
  /\ load_ok = FALSE
  /\ vector_dim = 0
  /\ points_to_upsert = <<>>
  /\ up_i = 0
  /\ next_uuid = 1
  /\ reported_attempted = NotReported
  /\ reported_count = NotReported
  /\ upsert_log = <<>>
  /\ index_writes = 0
  /\ collection_before = collection
  /\ started_empty = (collection.points = {})
  /\ all_acked = TRUE
  /\ completed = 0

\* The script starts: load_data_from_pickle, then exit() when nothing was loaded.
LoadCache ==
  /\ bpc \in {"idle", "exit", "crash", "done"}
  /\ builds < MaxBuilds
  /\ builds' = builds + 1
  /\ LET r == load_data_from_pickle(cacheFile)
     IN /\ loaded_data' = r.data
        /\ load_ok' = r.loaded
        /\ vector_dim' = r.dim
        /\ bpc' = IF ~r.loaded \/ r.data = <<>> THEN "exit" ELSE "connect"
  /\ points_to_upsert' = <<>>
  /\ up_i' = 0
  /\ reported_attempted' = NotReported
  /\ reported_count' = NotReported
  /\ upsert_log' = <<>>
  /\ index_writes' = 0
  /\ collection_before' = collection
  /\ UNCHANGED <<cacheFile, ingestVars, retrVars, collection, next_uuid, started_empty,
                 all_acked, completed>>

\* QdrantClient(host, port) succeeds.
ConnectOk ==
  /\ bpc = "connect"
  /\ bpc' = "provision"
  /\ UNCHANGED <<cacheFile, ingestVars, retrVars, builds, loaded_data, load_ok, vector_dim,
                 collection, points_to_upsert, up_i, next_uuid, reported_attempted,
                 reported_count, upsert_log, index_writes, collection_before,
                 started_empty, all_acked, completed>>

\* QdrantClient(host, port) raises: exit().
ConnectFails ==
  /\ bpc = "connect"
  /\ bpc' = "exit"
  /\ UNCHANGED <<cacheFile, ingestVars, retrVars, builds, loaded_data, load_ok, vector_dim,
                 collection, points_to_upsert, up_i, next_uuid, reported_attempted,
                 reported_count, upsert_log, index_writes, collection_before,
                 started_empty, all_acked, completed>>

\* recreate_collection succeeds: whatever collection had the name is deleted
\* and an empty one of size vector_dim is created.
RecreateOk ==
  /\ bpc = "provision"
  /\ collection' = Collection(vector_dim, {})
  /\ index_writes' = index_writes + 1
  /\ bpc' = "prepare"
  /\ UNCHANGED <<cacheFile, ingestVars, retrVars, builds, loaded_data, load_ok, vector_dim,
                 points_to_upsert, up_i, next_uuid, reported_attempted,
                 reported_count, upsert_log, collection_before, started_empty,
                 all_acked, completed>>

\* recreate_collection raises: the request was not applied.
RecreateFails ==
  /\ bpc = "provision"
  /\ index_writes' = index_writes + 1
  /\ bpc' = "verify"
  /\ UNCHANGED <<cacheFile, ingestVars, retrVars, builds, loaded_data, load_ok, vector_dim,
                 collection, points_to_upsert, up_i, next_uuid, reported_attempted,
                 reported_count, upsert_log, collection_before, started_empty,
                 all_acked, completed>>

\* get_collection answers and the size is vector_dim: go on to upsert.
VerifyMatches ==
  /\ bpc = "verify"
  /\ collection.exists
  /\ collection.dim = vector_dim
  /\ bpc' = "prepare"
  /\ UNCHANGED <<cacheFile, ingestVars, retrVars, builds, loaded_data, load_ok, vector_dim,
                 collection, points_to_upsert, up_i, next_uuid, reported_attempted,
                 reported_count, upsert_log, index_writes, collection_before,
                 started_empty, all_acked, completed>>

\* get_collection answers and the size differs: exit().
VerifyMismatch ==
  /\ bpc = "verify"
  /\ collection.exists
  /\ collection.dim # vector_dim
  /\ bpc' = "exit"
  /\ UNCHANGED <<cacheFile, ingestVars, retrVars, builds, loaded_data, load_ok, vector_dim,
                 collection, points_to_upsert, up_i, next_uuid, reported_attempted,
                 reported_count, upsert_log, index_writes, collection_before,
                 started_empty, all_acked, completed>>

\* get_collection raises (no such collection, or the index is unreachable): exit().
VerifyFails ==
  /\ bpc = "verify"
  /\ bpc' = "exit"
  /\ UNCHANGED <<cacheFile, ingestVars, retrVars, builds, loaded_data, load_ok, vector_dim,
                 collection, points_to_upsert, up_i, next_uuid, reported_attempted,
                 reported_count, upsert_log, index_writes, collection_before,
                 started_empty, all_acked, completed>>

\* The preparation loop, the "no valid points" exit and the "Preparing to
\* upsert" message; an uncaught KeyError ends the script.
PreparePointsToUpsert ==
  /\ bpc = "prepare"
  /\ LET r == PreparePoints(loaded_data, vector_dim, next_uuid)
     IN /\ points_to_upsert' = r.points
        /\ next_uuid' = next_uuid + Len(r.points)
        /\ bpc' = IF r.crashed THEN "crash"
                  ELSE IF r.points = <<>> THEN "exit" ELSE "upsert"
        /\ reported_attempted' =
             IF r.crashed \/ r.points = <<>> THEN NotReported ELSE Len(r.points)
  /\ up_i' = 0
  /\ UNCHANGED <<cacheFile, ingestVars, retrVars, builds, loaded_data, load_ok, vector_dim,
                 collection, reported_count, upsert_log, index_writes,
                 collection_before, started_empty, all_acked, completed>>

\* client.upsert(points=batch, wait=True) returns: the batch is stored.
UpsertBatchOk ==
  /\ bpc = "upsert"
  /\ up_i < Len(points_to_upsert)
  /\ collection.exists
  /\ LET batch == Batch(points_to_upsert, up_i)
     IN /\ \A k \in 1..Len(batch) : Len(batch[k].vector) = collection.dim
        /\ collection' = [collection EXCEPT !.points = Upserted(@, batch)]
        /\ upsert_log' = Append(upsert_log, [start |-> up_i, batch |-> batch, acked |-> TRUE])
  /\ index_writes' = index_writes + 1
  /\ up_i' = up_i + batch_size
  /\ UNCHANGED <<cacheFile, ingestVars, retrVars, bpc, builds, loaded_data, load_ok,
                 vector_dim, points_to_upsert, next_uuid, reported_attempted,
                 reported_count, collection_before, started_empty, all_acked,
                 completed>>

\* client.upsert raises: the batch is not stored, the loop goes on.
UpsertBatchFails ==
  /\ bpc = "upsert"
  /\ up_i < Len(points_to_upsert)
  /\ upsert_log' = Append(upsert_log, [start |-> up_i,
                                       batch |-> Batch(points_to_upsert, up_i),
                                       acked |-> FALSE])
  /\ index_writes' = index_writes + 1
  /\ up_i' = up_i + batch_size
  /\ all_acked' = FALSE
  /\ UNCHANGED <<cacheFile, ingestVars, retrVars, bpc, builds, loaded_data, load_ok,
                 vector_dim, collection, points_to_upsert, next_uuid,
                 reported_attempted, reported_count, collection_before,
                 started_empty, completed>>

\* After the loop: client.count answers and the count is printed.
CountOk ==
  /\ bpc = "upsert"
  /\ up_i >= Len(points_to_upsert)
  /\ collection.exists
  /\ reported_count' = Cardinality(collection.points)
  /\ completed' = completed + 1
  /\ bpc' = "done"
  /\ UNCHANGED <<cacheFile, ingestVars, retrVars, builds, loaded_data, load_ok, vector_dim,
                 collection, points_to_upsert, up_i, next_uuid, reported_attempted,
                 upsert_log, index_writes, collection_before, started_empty,
                 all_acked>>

\* After the loop: client.count raises, "Could not verify point count".
CountFails ==
  /\ bpc = "upsert"
  /\ up_i >= Len(points_to_upsert)
  /\ reported_count' = NotReported
  /\ completed' = completed + 1
  /\ bpc' = "done"
  /\ UNCHANGED <<cacheFile, ingestVars, retrVars, builds, loaded_data, load_ok, vector_dim,
                 collection, points_to_upsert, up_i, next_uuid, reported_attempted,
                 upsert_log, index_writes, collection_before, started_empty,
                 all_acked>>

BuildNext ==
  \/ LoadCache
  \/ ConnectOk
  \/ ConnectFails
  \/ RecreateOk
  \/ RecreateFails
  \/ VerifyMatches
  \/ VerifyMismatch
  \/ VerifyFails
  \/ PreparePointsToUpsert
  \/ UpsertBatchOk
  \/ UpsertBatchFails
  \/ CountOk
  \/ CountFails

\* ======================================================================
\* retrieval.py and rag_tool.py
\* ======================================================================

Queries == {"", "q"}

\* A payload is None or a dict; a dict may or may not have the key 'text'.
PayloadNone == [isNone |-> TRUE]
Payloads == {PayloadNone, [isNone |-> FALSE, text |-> "a"], [isNone |-> FALSE, other |-> "x"]}

\* hit.payload and 'text' in hit.payload
HasText(payload) == ~payload.isNone /\ "text" \in DOMAIN payload

\* What the index holds, as the list of scored points it returns for the
\* query, best first: the k-th point has score MaxHits + 1 - k.
Rankings ==
  UNION {{[k \in 1..n |-> [score |-> MaxHits + 1 - k, payload |-> ps[k]]] :
            ps \in [1..n -> Payloads]} : n \in 0..MaxHits}

\* query_points(limit=top_k): the best top_k points.
QueryPoints(points, limit) ==
  SubSeq(points, 1, IF limit < Len(points) THEN limit ELSE Len(points))

\* The list comprehension over search_points.
RECURSIVE ExtractChunksReversed(_)
ExtractChunksReversed(points) ==
  IF points = <<>> THEN <<>>
  ELSE ExtractChunksReversed(Tail(points))
         \o (IF HasText(Head(points).payload)
               THEN <<[text |-> Head(points).payload.text, score |-> Head(points).score]>>
               ELSE <<>>)

RECURSIVE ExtractChunks(_)
ExtractChunks(points) ==
  IF points = <<>> THEN <<>>
  ELSE (IF HasText(Head(points).payload)
          THEN <<[text |-> Head(points).payload.text, score |-> Head(points).score]>>
          ELSE <<>>)
         \o ExtractChunks(Tail(points))

Returned(value) == [outcome |-> "return", value |-> value]
Raised == [outcome |-> "raise", value |-> <<>>]

\* if not query_text
RejectsQueryNever(q) == FALSE
RejectsQuery(q) == q = ""

\* The except branch of retrieve_relevant_chunks: print and return [].
OnRetrievalErrorRaise == Raised
OnRetrievalError == Returned(<<>>)

RetrieveInit ==
  /\ rpc = "idle"
  /\ calls = 0
  /\ query_text = ""
  /\ top_k = 1
  /\ search_points = <<>>
  /\ result = Returned(<<>>)
  /\ embed_calls = 0
  /\ query_calls = 0
  /\ failed = FALSE
  /\ answer = "none"

\* generate_answer(query, top_k) calls retrieve_relevant_chunks(query, top_k).
CallRetrieve ==
  /\ rpc \in {"idle", "answered"}
  /\ calls < MaxCalls
  /\ calls' = calls + 1
  /\ \E q \in Queries, k \in 1..MaxTopK :
       /\ query_text' = q
       /\ top_k' = k
  /\ rpc' = "entered"
  /\ search_points' = <<>>
  /\ result' = Returned(<<>>)
  /\ embed_calls' = 0
  /\ query_calls' = 0
  /\ failed' = FALSE
  /\ answer' = "none"
  /\ UNCHANGED <<cacheFile, ingestVars, buildVars, ranked>>

\* The query is rejected: return [].
RejectEmptyQuery ==
  /\ rpc = "entered"
  /\ RejectsQuery(query_text)
  /\ result' = Returned(<<>>)
  /\ rpc' = "returned"
  /\ UNCHANGED <<cacheFile, ingestVars, buildVars, ranked, calls, query_text,
                 top_k, search_points, embed_calls, query_calls, failed, answer>>

\* openai_client.embeddings.create answers.
EmbedQueryOk ==
  /\ rpc = "entered"
  /\ ~RejectsQuery(query_text)
  /\ embed_calls' = embed_calls + 1
  /\ rpc' = "query"
  /\ UNCHANGED <<cacheFile, ingestVars, buildVars, ranked, calls, query_text,
                 top_k, search_points, result, query_calls, failed, answer>>

\* openai_client.embeddings.create raises.
EmbedQueryFails ==
  /\ rpc = "entered"
  /\ ~RejectsQuery(query_text)
  /\ embed_calls' = embed_calls + 1
  /\ failed' = TRUE
  /\ result' = OnRetrievalError
  /\ rpc' = "returned"
  /\ UNCHANGED <<cacheFile, ingestVars, buildVars, ranked, calls, query_text,
                 top_k, search_points, query_calls, answer>>

\* qdrant_client.query_points answers; the hits with a text are returned.
QueryPointsOk ==
  /\ rpc = "query"
  /\ query_calls' = query_calls + 1
  /\ search_points' = QueryPoints(ranked, top_k)
  /\ result' = Returned(ExtractChunks(search_points'))
  /\ rpc' = "returned"
  /\ UNCHANGED <<cacheFile, ingestVars, buildVars, ranked, calls, query_text,
                 top_k, embed_calls, failed, answer>>

\* qdrant_client.query_points raises (the index is unreachable).
QueryPointsFails ==
  /\ rpc = "query"
  /\ query_calls' = query_calls + 1
  /\ failed' = TRUE
  /\ result' = OnRetrievalError
  /\ rpc' = "returned"
  /\ UNCHANGED <<cacheFile, ingestVars, buildVars, ranked, calls, query_text,
                 top_k, search_points, embed_calls, answer>>

\* generate_answer: nothing retrieved, or the call raised into its except branch.
AnswerWithoutContext ==
  /\ rpc = "returned"
  /\ result.outcome = "raise" \/ result.value = <<>>
  /\ answer' = IF result.outcome = "raise" THEN "An error occurred"
               ELSE "No relevant information found"
  /\ rpc' = "answered"
  /\ UNCHANGED <<cacheFile, ingestVars, buildVars, ranked, calls, query_text,
                 top_k, search_points, result, embed_calls, query_calls, failed>>

\* generate_answer: the chat completion over the retrieved context answers.
AnswerGenerated ==
  /\ rpc = "returned"
  /\ result.outcome = "return" /\ result.value # <<>>
  /\ answer' = "generated"
  /\ rpc' = "answered"
  /\ UNCHANGED <<cacheFile, ingestVars, buildVars, ranked, calls, query_text,
                 top_k, search_points, result, embed_calls, query_calls, failed>>

\* generate_answer: the chat completion raises.
AnswerGenerationFails ==
  /\ rpc = "returned"
  /\ result.outcome = "return" /\ result.value # <<>>
  /\ answer' = "An error occurred"
  /\ rpc' = "answered"
  /\ UNCHANGED <<cacheFile, ingestVars, buildVars, ranked, calls, query_text,
                 top_k, search_points, result, embed_calls, query_calls, failed>>

RetrieveNext ==
  \/ CallRetrieve
  \/ RejectEmptyQuery
  \/ EmbedQueryOk
  \/ EmbedQueryFails
  \/ QueryPointsOk
  \/ QueryPointsFails
  \/ AnswerWithoutContext
  \/ AnswerGenerated
  \/ AnswerGenerationFails

\* ======================================================================
\* Specifications
\* ======================================================================

\* Ingestion runs, starting without a cache file.
Init ==
  /\ cacheFile = MissingFile
  /\ IngestInit
  /\ collection = Absent
  /\ BuildInit
  /\ ranked = <<>>
  /\ RetrieveInit
Next == IngestNext
Spec == Init /\ [][Next]_vars

\* Index-builder runs over any cache file and any prior collection.
IndexInit ==
  /\ cacheFile \in CacheFiles
  /\ IngestInit
  /\ collection \in InitialCollections
  /\ BuildInit
  /\ ranked = <<>>
  /\ RetrieveInit
IndexNext == BuildNext
IndexSpec == IndexInit /\ [][IndexNext]_vars

\* Queries against any content of the index.
RetrieveSpecInit ==
  /\ cacheFile = MissingFile
  /\ IngestInit
  /\ collection = Absent
  /\ BuildInit
  /\ ranked \in Rankings
  /\ RetrieveInit
RetrieveSpecNext == RetrieveNext
RetrieveSpec == RetrieveSpecInit /\ [][RetrieveSpecNext]_vars

\* ======================================================================
\* Properties
\* ======================================================================

\* The record the current ingestion run computed for chunk j, if its request succeeded.
FromThisRun(rec) ==
  \E j \in 1..Len(responses) :
    /\ responses[j].ok
    /\ rec = [text |-> text_chunks[j], embedding |-> responses[j].embedding]

\* The (text, vector) pairs of the chunks whose request succeeded, from chunk i on.
RECURSIVE PresentPairsFrom(_)
PresentPairsFrom(i) ==
  IF i > Len(text_chunks) \/ i > Len(responses) THEN <<>>
  ELSE (IF responses[i].ok
          THEN <<[text |-> text_chunks[i], embedding |-> responses[i].embedding]>>
          ELSE <<>>)
         \o PresentPairsFrom(i + 1)

\* C1: generate_embeddings keeps one slot per chunk: after each iteration the
\* list is as long as the number of chunks consumed, slot i holds the vector
\* the service returned for chunk i or None when that request failed, and
\* the returned list is as long as the input.
C1_EmbeddingsAligned ==
  /\ Len(responses) = emb_i
  /\ Len(chunk_embeddings) = emb_i
  /\ \A i \in 1..emb_i :
       chunk_embeddings[i] = IF responses[i].ok THEN responses[i].embedding ELSE None
  /\ ipc \in {"main148", "main157", "done"} => Len(chunk_embeddings) = Len(text_chunks)

\* generate_embeddings has returned for a run in which an early request failed
\* and a later one succeeded.
C1_Witness ==
  /\ ipc = "main148"
  /\ \E i, j \in 1..Len(responses) : i < j /\ ~responses[i].ok /\ responses[j].ok

\* C2: once a cache has loaded, every vector in it has the dimension the load
\* reported (a cache with mixed dimensions does not load).
C2_LoadedDimensionsAgree ==
  load_ok =>
    \A i \in 1..Len(loaded_data) :
      ("embedding" \in DOMAIN loaded_data[i] /\ ~loaded_data[i].embedding.isNone)
        => Len(loaded_data[i].embedding.vec) = vector_dim

\* C3: a run that finds the collection with another dimension than the cache's
\* stops before preparing points and leaves the collection as it was.
C3_MismatchedCollectionKept ==
  (load_ok /\ collection_before.exists /\ collection_before.dim # vector_dim)
    => /\ collection = collection_before
       /\ bpc \notin {"prepare", "upsert", "done", "crash"}

\* C4: two completed runs over the same cache, from a collection without
\* points and with every batch acknowledged, leave as many points as the cache
\* has valid records.
C4_IdempotentReindex ==
  (builds = 2 /\ completed = 2 /\ bpc = "done" /\ started_empty /\ all_acked)
    => Cardinality(collection.points) = Len(PreparePoints(loaded_data, vector_dim, 0).points)

\* Points of the acknowledged batches of this run.
RECURSIVE AckedPoints(_)
AckedPoints(log) ==
  IF log = <<>> THEN 0
  ELSE (IF Head(log).acked THEN Len(Head(log).batch) ELSE 0) + AckedPoints(Tail(log))

\* C6: the batches go out in order, at most batch_size points each; the points
\* of an acknowledged batch stay in the index; every batch is attempted; and
\* at the end the run has reported the points attempted and the points indexed.
C6_BatchesAndReport ==
  /\ \A k \in 1..Len(upsert_log) :
       /\ upsert_log[k].start = (k - 1) * batch_size
       /\ upsert_log[k].batch = Batch(points_to_upsert, upsert_log[k].start)
       /\ Len(upsert_log[k].batch) <= batch_size
       /\ upsert_log[k].acked => Range(upsert_log[k].batch) \subseteq collection.points
  /\ bpc = "done" =>
       /\ Len(upsert_log) * batch_size >= Len(points_to_upsert)
       /\ reported_attempted = Len(points_to_upsert)
       /\ reported_count = AckedPoints(upsert_log)

\* A cache file that is missing, unreadable, not a list, empty, or has a
\* record without the text field or without the embedding field.
Tampered(file) ==
  \/ file.kind # "list"
  \/ file.items = <<>>
  \/ \E i \in 1..Len(file.items) :
       "text" \notin DOMAIN file.items[i] \/ "embedding" \notin DOMAIN file.items[i]

\* C7: over a corrupted or tampered cache file the load fails and the run sends
\* no create, recreate or upsert request, so the collection stays as it was.
C7_TamperedCacheFailsClosed ==
  (builds > 0 /\ Tampered(cacheFile))
    => /\ ~load_ok
       /\ index_writes = 0
       /\ collection = collection_before

C8_SavedPairsArePresentPairs ==
  save_successful => cacheFile = ListFile(PresentPairsFrom(1))

\* A save after a run in which one request failed and two succeeded.
C8_Witness ==
  /\ save_successful
  /\ \E i \in 1..Len(responses) : ~responses[i].ok
  /\ Len(cacheFile.items) >= 2

\* C9 as stated: when a run has finished, every record in the cache file was
\* produced by that run.
C9_CacheHoldsOnlyThisRun ==
  ipc = "done" =>
    (cacheFile.kind = "list" =>
       \A k \in 1..Len(cacheFile.items) : FromThisRun(cacheFile.items[k]))

\* C9 amended: when a run has finished with a successful save, every record in
\* the cache file was produced by that run; a run that produced no valid
\* record has not written the file, which is as it was before the run.
C9_SavedCacheHoldsOnlyThisRun ==
  ipc = "done" =>
    /\ save_successful =>
         /\ cacheFile.kind = "list"
         /\ \A k \in 1..Len(cacheFile.items) : FromThisRun(cacheFile.items[k])
    /\ processed_data = <<>> => cacheFile = cache_before

\* A second run saved over the records of the first, with a failed request in it.
C9_Witness ==
  /\ ipc = "done"
  /\ run = 2
  /\ save_successful
  /\ cache_before.kind = "list"
  /\ \E i \in 1..Len(responses) : ~responses[i].ok

\* C10: a call with the empty query has returned the empty list without any
\* embedding request or index query.
C10_EmptyQueryNoCalls ==
  (rpc \in {"returned", "answered"} /\ query_text = "")
    => /\ result = Returned(<<>>)
       /\ embed_calls = 0
       /\ query_calls = 0

\* A call with the empty query returned while the index holds points.
C10_Witness ==
  /\ rpc = "returned"
  /\ query_text = ""
  /\ ranked # <<>>

\* The positions, among the best top_k points of the index, of the points
\* whose payload has a text.
TextPositions ==
  {k \in 1..(IF top_k < Len(ranked) THEN top_k ELSE Len(ranked)) :
     HasText(ranked[k].payload)}

\* The j-th smallest of these positions.
NthTextPosition(j) ==
  CHOOSE k \in TextPositions : Cardinality({i \in TextPositions : i <= k}) = j

\* C11: a call with a non-empty query whose two requests succeeded returns,
\* without raising, at most top_k hits: exactly the points with a text among
\* the best top_k of the index, in the index's order (scores descending);
\* with fewer than top_k points in the index every point was fetched.
C11_HitsAreRankedTextPoints ==
  (rpc \in {"returned", "answered"} /\ query_text # "" /\ ~failed)
    => /\ result.outcome = "return"
       /\ Len(result.value) <= top_k
       /\ Len(result.value) = Cardinality(TextPositions)
       /\ \A j \in 1..Len(result.value) :
            /\ result.value[j].text = ranked[NthTextPosition(j)].payload.text
            /\ result.value[j].score = ranked[NthTextPosition(j)].score
       /\ \A i, j \in 1..Len(result.value) :
            i < j => result.value[i].score > result.value[j].score
       /\ Len(ranked) < top_k => search_points = ranked

\* A query for more points than the index holds returned two hits and left
\* out a point without text that ranks above one of them.
C11_Witness ==
  /\ rpc = "returned"
  /\ query_text # ""
  /\ ~failed
  /\ Len(ranked) < top_k
  /\ Len(result.value) = 2
  /\ \E k \in 1..Len(ranked) : ~HasText(ranked[k].payload) /\ k < Len(ranked)

====
